---- MODULE Spec2Model ----
(***************************************************************************)
(* Beryl kernel memory management: the physical frame allocator            *)
(* (mm/pmm.rs over utils/bitmap.rs), the slab allocator (mm/slab.rs) and   *)
(* the heap dispatcher (mm/heap.rs).                                       *)
(*                                                                         *)
(* Numbers are 64-bit machine words in the code.  Every value the model    *)
(* computes stays far below 2^31, except where noted (a cursor minus a     *)
(* page count that wraps is kept as the negative representative of the     *)
(* wrapped value).                                                         *)
(***************************************************************************)
EXTENDS Integers, Sequences, FiniteSets, TLC

VARIABLES
  bitmap,     \* pmm.rs BITMAP: the byte buffer of the Bitmap, a sequence of bytes
  cursor,     \* pmm.rs LAST_USED_INDEX
  mem,        \* physical memory by 8-byte word, see FillOf
  slabs,      \* heap.rs Alloc.slabs: 1..10 -> [size, first_free]
  mem_used,   \* heap.rs Alloc.mem_used
  status,     \* "ok", or how the machine stopped
  layout,     \* field order the build gave struct Slab
  live,       \* caller side: the allocations handed out and not yet given back
  last,       \* caller side: the last call and what it returned
  nops,       \* number of calls made so far
  lock,       \* pmm.rs BITMAP's mutex: 0, or the core that holds it
  core,       \* where each core is in its call of the frame allocator
  overflow_checks, \* whether the build checks integer overflow
  heap_lock,  \* heap.rs GLOBAL_ALLOC's mutex: 0, or the core that holds it
  memmap,     \* pmm.rs MEMMAP: the entries of the bootloader's response
  handed,     \* boot side: the memory map as the bootloader handed it over
  bitmap_addr \* physical address of the buffer the Bitmap in BITMAP points to

vars == <<bitmap, cursor, mem, slabs, mem_used, status, layout, live, last, nops,
          lock, core, overflow_checks, heap_lock, memmap, handed, bitmap_addr>>

\* What boot fixed: the memory map and the place of the bitmap
boot == <<memmap, handed, bitmap_addr>>

\* The state the calls of one caller at a time leave alone
smp == <<lock, core, overflow_checks, heap_lock, boot>>

----------------------------------------------------------------------------
(* Machine constants *)

PAGE == 4096

WORD == 8

\* The direct-map offset (a boot input; any page-aligned value)
HHDM_ADDRESS == 256 * PAGE

\* What memory holds before anything wrote it: a value that is neither zero
\* nor an address of the direct map.
JUNK == 2 ^ 30

\* a & b on naturals
RECURSIVE BitAnd(_, _)
BitAnd(a, b) ==
  IF a = 0 \/ b = 0 THEN 0
  ELSE (a % 2) * (b % 2) + 2 * BitAnd(a \div 2, b \div 2)

\* a & !b on naturals
AndNot(a, b) == a - BitAnd(a, b)

align_down(addr, align) == AndNot(addr, align - 1)

align_up(addr, align) == AndNot(addr + align - 1, align - 1)

\* ceil(s / c)
CeilDiv(s, c) == (s + c - 1) \div c

as_hhdm(phys) == phys + HHDM_ADDRESS

as_phys_hhdm(virt) == virt - HHDM_ADDRESS

----------------------------------------------------------------------------
(* utils/bitmap.rs: bit idx lives in byte idx / 8 (sequence position + 1) *)

BitmapLen(inner) == Len(inner) * 8

InBitmap(inner, idx) == idx >= 0 /\ idx \div 8 < Len(inner)

BitmapTest(inner, idx) ==
  BitAnd(inner[idx \div 8 + 1], 2 ^ (idx % 8)) # 0

BitmapSet(inner, idx) ==
  [inner EXCEPT ![idx \div 8 + 1] = @ + (2 ^ (idx % 8)) - BitAnd(@, 2 ^ (idx % 8))]

BitmapUnset(inner, idx) ==
  [inner EXCEPT ![idx \div 8 + 1] = AndNot(@, 2 ^ (idx % 8))]

\* BITMAP before init stored a Bitmap in it: no byte buffer holds -1
None == << -1 >>

\* The bits set in inner and clear in before
NewBits(inner, before) ==
  {i \in 0 .. (BitmapLen(inner) - 1) : BitmapTest(inner, i) /\ ~BitmapTest(before, i)}

----------------------------------------------------------------------------
(* The machine state as one record, so that the functions below compose *)

K == [bitmap |-> bitmap, cursor |-> cursor, mem |-> mem, slabs |-> slabs,
      mem_used |-> mem_used, status |-> status]

\* The machine stops: a panic, or behaviour the language leaves undefined
Stop(k, why) == [k EXCEPT !.status = IF @ = "ok" THEN why ELSE @]

Install(k) ==
  /\ bitmap' = k.bitmap
  /\ cursor' = k.cursor
  /\ mem' = k.mem
  /\ slabs' = k.slabs
  /\ mem_used' = k.mem_used
  /\ status' = k.status

----------------------------------------------------------------------------
(* Memory: words of the direct map *)

\* The frames that exist: those the bitmap covers
RamWords(k) == BitmapLen(k.bitmap) * (PAGE \div WORD)

\* A virtual address the machine can access as a word
Mapped(k, v) ==
  /\ v >= HHDM_ADDRESS
  /\ v % WORD = 0
  /\ (v - HHDM_ADDRESS) \div WORD < RamWords(k)

WordOf(v) == (v - HHDM_ADDRESS) \div WORD

WordsPerPage == PAGE \div WORD

\* mem = [zero |-> the frames filled with zero as a whole (every other frame
\* is filled with JUNK), ex |-> the words that differ from their frame's fill]
FillOf(m, w) == IF w \div WordsPerPage \in m.zero THEN 0 ELSE JUNK

Load(k, v) ==
  IF WordOf(v) \in DOMAIN k.mem.ex THEN k.mem.ex[WordOf(v)] ELSE FillOf(k.mem, WordOf(v))

\* Memory m with the words of DOMAIN val overwritten by val
Overwrite(m, val) ==
  LET keep == {w \in DOMAIN m.ex : w \notin DOMAIN val}
      diff == {w \in DOMAIN val : val[w] # FillOf(m, w)}
  IN  [m EXCEPT !.ex = [w \in keep \cup diff |->
                          IF w \in DOMAIN val THEN val[w] ELSE m.ex[w]]]

\* core::ptr::write of one word
Store(k, v, x) ==
  [k EXCEPT !.mem = Overwrite(@, [w \in {WordOf(v)} |-> x])]

\* core::ptr::write_bytes(v, 0, n) for a block inside a frame, n a multiple of 8
write_bytes_zero(k, v, n) ==
  [k EXCEPT !.mem = Overwrite(@, [w \in WordOf(v) .. (WordOf(v) + n \div WORD - 1) |-> 0])]

\* core::ptr::write_bytes(as_hhdm(phys), 0, pages * 0x1000), phys a frame base
write_bytes_zero_pages(k, phys, pages) ==
  LET fs == (phys \div PAGE) .. (phys \div PAGE + pages - 1)
  IN  [k EXCEPT !.mem = [zero |-> @.zero \cup fs,
                         ex |-> [w \in {x \in DOMAIN @.ex : x \div WordsPerPage \notin fs}
                                   |-> @.ex[w]]]]

----------------------------------------------------------------------------
(* mm/pmm.rs, one caller at a time *)

RECURSIVE SetRange(_, _, _)
SetRange(inner, from, to) ==
  IF from >= to THEN inner ELSE SetRange(BitmapSet(inner, from), from + 1, to)

RECURSIVE UnsetRange(_, _, _)
UnsetRange(inner, from, to) ==
  IF from >= to THEN inner ELSE UnsetRange(BitmapUnset(inner, from), from + 1, to)

\* The while loop of alloc_inner, with p free bits counted so far
RECURSIVE Scan(_, _, _)
Scan(k, p, pages) ==
  IF ~(k.cursor < BitmapLen(k.bitmap))
  THEN [k |-> k, some |-> FALSE, page |-> 0]
  ELSE LET idx == k.cursor
           k1  == [k EXCEPT !.cursor = idx + 1]
       IN  IF BitmapTest(k.bitmap, idx) = FALSE
           THEN IF p + 1 = pages
                THEN LET page == k1.cursor - pages
                     IN  [k |-> [k1 EXCEPT !.bitmap = SetRange(@, page, k1.cursor)],
                          some |-> TRUE, page |-> page]
                ELSE Scan(k1, p + 1, pages)
           ELSE Scan(k1, 0, pages)

\* The clear bits of the bitmap, looked for in the bytes that are not 0xFF
ClearBits(inner) ==
  {i \in UNION {(8 * (b - 1)) .. (8 * (b - 1) + 7) :
                  b \in {b \in 1 .. Len(inner) : inner[b] # 255}} :
     ~BitmapTest(inner, i)}

\* The indices at which the loop of alloc_inner, started at cursor from with
\* p = 0, would have counted pages clear bits in a row
RunEnds(inner, from, pages) ==
  {j \in ClearBits(inner) :
     /\ pages >= 1
     /\ j - pages + 1 >= from
     /\ \A i \in (j - pages + 1) .. j : i \in ClearBits(inner)}

\* Mutant: the marking loop runs one index past the cursor
ScanTo_marks_one_more(k, j, pages) ==
  [k |-> [k EXCEPT !.cursor = j + 1,
                   !.bitmap = SetRange(@, j + 1 - pages,
                                       IF j + 2 <= BitmapLen(@) THEN j + 2 ELSE j + 1)],
   some |-> TRUE, page |-> j + 1 - pages]

\* What the loop of alloc_inner leaves when it stops at the run ending at j
ScanTo(k, j, pages) ==
  [k |-> [k EXCEPT !.cursor = j + 1,
                   !.bitmap = SetRange(@, j + 1 - pages, j + 1)],
   some |-> TRUE, page |-> j + 1 - pages]

\* The while loop of alloc_inner as a whole: it stops at the first run end at
\* or after the cursor, or leaves the cursor at the end of the bitmap.  Equal
\* to Scan(k, 0, pages), without its depth of one call per bit.
ScanAll(k, ends, pages) ==
  IF ends = {}
  THEN [k |-> [k EXCEPT !.cursor = IF @ < BitmapLen(k.bitmap)
                                   THEN BitmapLen(k.bitmap) ELSE @],
        some |-> FALSE, page |-> 0]
  ELSE ScanTo(k, CHOOSE j \in ends : \A j2 \in ends : j <= j2, pages)

\* Mutant: an empty BITMAP is read as a bitmap of eight free frames
alloc_inner_unwrap_or(k, pages) ==
  ScanAll([k EXCEPT !.bitmap = IF @ = None THEN <<0>> ELSE @],
          RunEnds(IF k.bitmap = None THEN <<0>> ELSE k.bitmap, k.cursor, pages), pages)

\* Mutant: first fit, every scan starts at index 0
alloc_inner_first_fit(k, pages) ==
  IF k.bitmap = None
  THEN [k |-> Stop(k, "panic"), some |-> FALSE, page |-> 0]
  ELSE ScanAll([k EXCEPT !.cursor = 0], RunEnds(k.bitmap, 0, pages), pages)

\* alloc_inner: bitmap.as_mut().unwrap() panics while BITMAP is None
alloc_inner(k, pages) ==
  IF k.bitmap = None
  THEN [k |-> Stop(k, "panic"), some |-> FALSE, page |-> 0]
  ELSE ScanAll(k, RunEnds(k.bitmap, k.cursor, pages), pages)

\* expect("OOM") on the result of the second scan
alloc_expect(r2) ==
  IF r2.some
  THEN [k |-> r2.k, ret |-> r2.page * PAGE, retried |-> 1]
  ELSE [k |-> [r2.k EXCEPT !.status = "oom"], ret |-> 0, retried |-> 1]

\* Mutant: the first scan's failure is final
alloc_retry_never(r1, pages) ==
  IF r1.some
  THEN [k |-> r1.k, ret |-> r1.page * PAGE, retried |-> 0]
  ELSE [k |-> [r1.k EXCEPT !.status = "oom"], ret |-> 0, retried |-> 0]

\* Mutant: the second scan goes on from where the first one ended
alloc_retry_in_place(r1, pages) ==
  IF r1.some
  THEN [k |-> r1.k, ret |-> r1.page * PAGE, retried |-> 0]
  ELSE alloc_expect(alloc_inner(r1.k, pages))

\* unwrap_or_else on the result r1 of the first scan: the closure resets the
\* cursor and scans once more
alloc_retry(r1, pages) ==
  IF r1.some \/ r1.k.status # "ok"
  THEN [k |-> r1.k, ret |-> r1.page * PAGE, retried |-> 0]
  ELSE alloc_expect(alloc_inner([r1.k EXCEPT !.cursor = 0], pages))

\* Returns the physical base in ret; retried tells whether the cursor was
\* reset and the scan run a second time; status "oom" is expect("OOM").
alloc_nozero(k, pages) == alloc_retry(alloc_inner(k, pages), pages)

\* Mutant: alloc hands the frames out as they are
alloc_zero_skip(r, pages) == r

\* The write_bytes of alloc on the result r of alloc_nozero
alloc_zero(r, pages) ==
  IF r.k.status # "ok" THEN r
  ELSE [r EXCEPT !.k = write_bytes_zero_pages(r.k, r.ret, pages)]

pmm_alloc(k, pages) == alloc_zero(alloc_nozero(k, pages), pages)

\* Mutant: the last frame of the run stays marked used
pmm_free_short(k, phys, pages) ==
  [k EXCEPT !.cursor = phys \div PAGE,
            !.bitmap = UnsetRange(@, phys \div PAGE, phys \div PAGE + pages - 1)]

\* Mutant: free clears the bits and leaves the cursor where it was
pmm_free_no_hint(k, phys, pages) ==
  [k EXCEPT !.bitmap = UnsetRange(@, phys \div PAGE, phys \div PAGE + pages)]

\* bitmap.unset(i) panics (slice index out of bounds) at the first i outside
\* the buffer; the bits before it are already cleared.
pmm_free(k, phys, pages) ==
  LET page == phys \div PAGE
      bad  == \E i \in page .. (page + pages - 1) : ~InBitmap(k.bitmap, i)
      stop == IF bad THEN BitmapLen(k.bitmap) ELSE page + pages
  IN  IF k.bitmap = None THEN Stop(k, "panic")
      ELSE [k EXCEPT !.cursor = page,
                     !.bitmap = UnsetRange(@, page, stop),
                     !.status = IF bad THEN "panic" ELSE "ok"]

----------------------------------------------------------------------------
(* mm/pmm.rs init.  A memory map is a sequence of entries
   [base, len, usable], base and len in bytes. *)

Max(a, b) == IF a > b THEN a ELSE b

\* The first loop over the first n entries: the highest end of a usable entry
RECURSIVE highest_addr(_, _)
highest_addr(map, n) ==
  IF n = 0 THEN 0
  ELSE IF map[n].usable
       THEN Max(highest_addr(map, n - 1), map[n].base + map[n].len)
       ELSE highest_addr(map, n - 1)

\* align_up(highest_addr / 4096 / 8, 4096), in bytes
bitmap_size(map) == align_up((highest_addr(map, Len(map)) \div 4096) \div 8, 4096)

\* The entries the second loop places the bitmap in: it has no break
init_fits(map, size) == {i \in 1 .. Len(map) : map[i].usable /\ map[i].len >= size}

\* Mutant: the entries that hold the bitmap keep their extent
init_carve_none(map, size) == map

\* The memory map after the second loop: entry.len -= bitmap_size and
\* entry.base += bitmap_size in every entry that fits
init_carve(map, size) ==
  [i \in 1 .. Len(map) |->
     IF i \in init_fits(map, size)
     THEN [map[i] EXCEPT !.len = @ - size, !.base = @ + size]
     ELSE map[i]]

\* The Bitmap the second loop ends with points at the last entry that fits
init_bitmap_addr(map, size) ==
  map[CHOOSE i \in init_fits(map, size) : \A j \in init_fits(map, size) : j <= i].base

\* bitmap_slice.fill(0xFF) at the entries the bitmap was placed in before the
\* last one: the bytes stay in memory (the last buffer is the variable bitmap)
init_fill(m, map, size) ==
  Overwrite(m, [w \in UNION {(map[i].base \div WORD) .. ((map[i].base + size) \div WORD - 1) :
                               i \in {i \in init_fits(map, size) :
                                        map[i].base # init_bitmap_addr(map, size)}}
                  |-> -1])

\* The bits the third loop clears for one entry: (entry.base + i) / 4096 for
\* i in (0 .. entry.len).step_by(4096)
init_frames(e) ==
  IF e.usable
  THEN {(e.base + j * 4096) \div 4096 : j \in 0 .. (CeilDiv(e.len, 4096) - 1)}
  ELSE {}

\* The third loop over the entries from i on
RECURSIVE init_unset(_, _, _)
init_unset(inner, map, i) ==
  IF i > Len(map) THEN inner
  ELSE init_unset(UnsetRange(inner, map[i].base \div 4096,
                             IF map[i].usable
                             THEN map[i].base \div 4096 + CeilDiv(map[i].len, 4096)
                             ELSE map[i].base \div 4096),
                  map, i + 1)

\* init once the second loop left the carved map: bitmap.unwrap() panics when
\* no entry fits, bitmap.unset(idx) when idx is outside the buffer; BITMAP is
\* stored last.
init_store(k, map, carved, size) ==
  IF init_fits(map, size) = {} THEN [k |-> Stop(k, "panic"), memmap |-> carved, bitmap_addr |-> 0]
  ELSE IF \E i \in 1 .. Len(carved) : \E f \in init_frames(carved[i]) : f \div 8 >= size
  THEN [k |-> Stop([k EXCEPT !.mem = init_fill(@, map, size)], "panic"),
        memmap |-> carved, bitmap_addr |-> 0]
  ELSE [k |-> [k EXCEPT !.mem = init_fill(@, map, size),
                        !.bitmap = init_unset([b \in 1 .. size |-> 255], carved, 1)],
        memmap |-> carved, bitmap_addr |-> init_bitmap_addr(map, size)]

\* pmm::init on the memory map of the bootloader's response
pmm_init(k, map) == init_store(k, map, init_carve(map, bitmap_size(map)), bitmap_size(map))

----------------------------------------------------------------------------
(* mm/slab.rs *)

\* heap.rs Alloc::new: the block size of each of the ten descriptors
Classes == <<8, 16, 24, 32, 48, 64, 128, 256, 512, 1024>>

\* Where the static GLOBAL_ALLOC keeps its descriptors: kernel image, outside
\* the frames the allocator hands out.  struct Slab is two words.
SLABS_ADDRESS == HHDM_ADDRESS + 1024 * PAGE

DescAddr(i) == SLABS_ADDRESS + (i - 1) * 2 * WORD

IsDesc(a) == \E i \in 1 .. Len(Classes) : a = DescAddr(i)

DescIndex(a) == CHOOSE i \in 1 .. Len(Classes) : a = DescAddr(i)

\* struct Slab { size, first_free } has no repr: the build orders the fields
FieldOffset(field) ==
  IF field = "size"
  THEN (IF layout = "size_first" THEN 0 ELSE WORD)
  ELSE (IF layout = "size_first" THEN WORD ELSE 0)

RangeMapped(k, v, n) ==
  /\ Mapped(k, v)
  /\ n >= 0
  /\ WordOf(v) + n \div WORD <= RamWords(k)

\* self.size, self.first_free through a `&mut Slab` that points at `self`:
\* a descriptor of GLOBAL_ALLOC, or whatever memory the reference was made of
SlabField(k, self, field) ==
  IF IsDesc(self) THEN k.slabs[DescIndex(self)][field]
  ELSE Load(k, self + FieldOffset(field))

SetSlabField(k, self, field, x) ==
  IF IsDesc(self) THEN [k EXCEPT !.slabs[DescIndex(self)][field] = x]
  ELSE IF Mapped(k, self + FieldOffset(field))
       THEN Store(k, self + FieldOffset(field), x)
       ELSE Stop(k, "undefined")

\* Slab::init after its pmm::alloc(1) returned r
slab_carve(r, self) ==
  LET addr       == as_hhdm(r.ret)
      size       == SlabField(r.k, self, "size")
      hdr_offset == align_up(8, size)
      avl        == PAGE - hdr_offset
      \* addr.as_mut_ptr::<*mut ()>().add(hdr_offset): add counts in words
      arr        == addr + hdr_offset * WORD
      max        == avl \div size - 1
      fact       == size \div 8
      last_block == arr + max * fact * WORD
      val        == [w \in {WordOf(arr + j * fact * WORD) : j \in 0 .. max} |->
                       IF w = WordOf(last_block) THEN 0
                       ELSE HHDM_ADDRESS + (w + fact) * WORD]
  IN  IF r.k.status # "ok" THEN r.k
      ELSE IF ~RangeMapped(r.k, arr, (max + 1) * size)
      THEN Stop(SetSlabField(Store(r.k, addr, self), self, "first_free", arr), "undefined")
      ELSE [SetSlabField(Store(r.k, addr, self), self, "first_free", arr)
              EXCEPT !.mem = Overwrite(@, val)]

\* Slab::init
slab_init(k, self) == slab_carve(pmm_alloc(k, 1), self)

\* Slab::alloc once the free list is not empty
slab_take(k1, self) ==
  LET old_free == SlabField(k1, self, "first_free")
      size     == SlabField(k1, self, "size")
  IN  IF k1.status # "ok" THEN [k |-> k1, ret |-> 0]
      ELSE IF ~Mapped(k1, old_free) \/ ~RangeMapped(k1, old_free, size)
      THEN [k |-> Stop(k1, "undefined"), ret |-> 0]
      ELSE [k |-> write_bytes_zero(
                    SetSlabField(k1, self, "first_free", Load(k1, old_free)),
                    old_free, size),
            ret |-> old_free]

\* Mutant: every alloc carves a fresh page
slab_alloc_eager(k, self) == slab_take(slab_init(k, self), self)

\* Slab::alloc
slab_alloc(k, self) ==
  slab_take(IF SlabField(k, self, "first_free") = 0 THEN slab_init(k, self) ELSE k, self)

\* Slab::free
slab_free(k, self, ptr) ==
  IF k.status # "ok" THEN k
  ELSE IF ~Mapped(k, ptr) THEN Stop(k, "undefined")
  ELSE SetSlabField(Store(k, ptr, SlabField(k, self, "first_free")),
                    self, "first_free", ptr)

----------------------------------------------------------------------------
(* mm/heap.rs *)

\* Mutant: a request of exactly a class size goes to the next class
slab_i_strict(size) ==
  IF \E i \in 1 .. Len(Classes) : Classes[i] > size
  THEN CHOOSE i \in 1 .. Len(Classes) :
         /\ Classes[i] > size
         /\ \A j \in 1 .. (i - 1) : ~(Classes[j] > size)
  ELSE 0

\* The index of the first class that holds size, 0 when there is none
slab_i(size) ==
  IF \E i \in 1 .. Len(Classes) : Classes[i] >= size
  THEN CHOOSE i \in 1 .. Len(Classes) :
         /\ Classes[i] >= size
         /\ \A j \in 1 .. (i - 1) : ~(Classes[j] >= size)
  ELSE 0

PagesFor(size) == align_up(size, 4096) \div 4096

IsPageAligned(ptr) == BitAnd(ptr, 4095) = 0

\* `&mut *((ptr as u64 & !0xFFF) as *mut Slab)`: the page itself, taken as a Slab
SlabOfPtr(ptr) == AndNot(ptr, 4095)

\* What alloc returns from self.slabs[i].alloc()
from_slab(s, i) == [k |-> s.k, ret |-> s.ret, class |-> i, pages |-> 0]

\* What alloc returns from pmm::alloc(pages).as_hhdm()
from_frames(f, pages) == [k |-> f.k, ret |-> as_hhdm(f.ret), class |-> 0, pages |-> pages]

\* Mutant: the counter grows by what the request takes from its class or from
\* the frames
mem_used_add_taken(k, size) ==
  [k EXCEPT !.mem_used = @ + (IF slab_i(size) # 0 THEN Classes[slab_i(size)]
                              ELSE PagesFor(size) * PAGE)]

\* self.mem_used += layout.size()
mem_used_add(k, size) == [k EXCEPT !.mem_used = @ + size]

\* self.mem_used -= layout.size(): below zero the subtraction panics in a build
\* with overflow checks and wraps in one without; the wrapped value is kept as
\* its negative representative.
mem_used_sub(k, size) ==
  IF k.mem_used < size /\ overflow_checks
  THEN Stop(k, "panic")
  ELSE [k EXCEPT !.mem_used = @ - size]

\* The frames Slab::init has drawn in a call served by class that found the
\* bitmap before and left the state k
DrawnBy(k, before, class) ==
  IF k.status # "ok" \/ class = 0 THEN {} ELSE NewBits(k.bitmap, before)

\* Alloc::alloc(layout), layout.size() = size
heap_alloc(k, size) ==
  IF k.status # "ok" THEN [k |-> k, ret |-> 0, class |-> 0, pages |-> 0]
  ELSE IF slab_i(size) # 0
  THEN from_slab(slab_alloc(mem_used_add(k, size), DescAddr(slab_i(size))),
                 slab_i(size))
  ELSE from_frames(pmm_alloc(mem_used_add(k, size), PagesFor(size)),
                   PagesFor(size))

\* Alloc::free once the counter is updated: the page-aligned branch, then the
\* slab free every pointer falls through to
free_dispatch(k, ptr, size) ==
  IF k.status # "ok" THEN k
  ELSE slab_free(IF IsPageAligned(ptr)
                 THEN pmm_free(k, as_phys_hhdm(ptr), PagesFor(size))
                 ELSE k,
                 SlabOfPtr(ptr), ptr)

\* Alloc::free(ptr, layout)
heap_free(k, ptr, size) == free_dispatch(mem_used_sub(k, size), ptr, size)

\* core::ptr::copy_nonoverlapping(src, dst, n), n a multiple of 8
copy_nonoverlapping(k, src, dst, n) ==
  IF k.status # "ok" THEN k
  ELSE IF ~(RangeMapped(k, src, n) /\ RangeMapped(k, dst, n)) THEN Stop(k, "undefined")
  ELSE [k EXCEPT !.mem =
          Overwrite(@, [w \in WordOf(dst) .. (WordOf(dst) + n \div WORD - 1) |->
                          Load(k, src + (w - WordOf(dst)) * WORD)])]

Min(a, b) == IF a < b THEN a ELSE b

\* realloc of a frame-granular ptr after its alloc returned a
realloc_copy(a, ptr, n) ==
  [k |-> copy_nonoverlapping(a.k, ptr, a.ret, n), ret |-> a.ret, fresh |-> TRUE]

\* realloc of a slab-granular ptr after its alloc returned a
realloc_move(a, ptr, slab) ==
  [k |-> slab_free(copy_nonoverlapping(a.k, ptr, a.ret, SlabField(a.k, slab, "size")),
                   slab, ptr),
   ret |-> a.ret, fresh |-> TRUE]

realloc_null(a) == [k |-> a.k, ret |-> a.ret, fresh |-> TRUE]

\* Mutant: the null branch passes the old layout on to alloc
realloc_of_null_old_layout(k, size, new_size) == realloc_null(heap_alloc(k, size))

\* realloc of a null ptr: self.alloc(Layout::from_size_align(new_size,
\* layout.align()).unwrap()); alloc reads only the size of its layout
realloc_of_null(k, size, new_size) == realloc_null(heap_alloc(k, new_size))

\* Alloc::realloc(ptr, layout, new_size), layout.size() = size
heap_realloc(k, ptr, size, new_size) ==
  IF ptr = 0 THEN realloc_of_null(k, size, new_size)
  ELSE IF IsPageAligned(ptr)
  THEN IF align_up(size, 4096) = new_size
       THEN [k |-> k, ret |-> ptr, fresh |-> FALSE]
       ELSE realloc_copy(heap_alloc(k, new_size), ptr, Min(size, new_size))
  ELSE IF new_size > SlabField(k, SlabOfPtr(ptr), "size")
  THEN realloc_move(heap_alloc(k, new_size), ptr, SlabOfPtr(ptr))
  ELSE [k |-> k, ret |-> ptr, fresh |-> FALSE]

----------------------------------------------------------------------------
(* The frame allocator driven directly, one caller at a time *)

\* Bound: number of calls in a run of the frame allocator
MaxFrameOps == 4

\* Bitmaps after init: set bits are frames that are not usable.  The first is
\* the 16-frame bitmap with frames 0-3 used.  The bytes init would add above
\* these are all 0xFF (see SpecBoot): a scan crosses them without counting.
FrameInitBitmaps == {<<15, 0>>, <<0, 0>>, <<165, 193>>}

PageRequests == {1, 2, 3, 16}

NoCall == [op |-> "none"]

Without(seq, i) == [j \in 1 .. (Len(seq) - 1) |-> IF j < i THEN seq[j] ELSE seq[j + 1]]

LiveIds == 1 .. Len(live)

\* Memory at boot: nothing has been written
NoMemory == [zero |-> {}, ex |-> <<>>]

InitFrame ==
  /\ bitmap \in FrameInitBitmaps
  /\ cursor = 0
  /\ mem = NoMemory
  /\ slabs = <<>>
  /\ mem_used = 0
  /\ status = "ok"
  /\ layout = "none"
  /\ live = <<>>
  /\ last = NoCall
  /\ nops = 0
  /\ lock = 0
  /\ core = <<>>
  /\ overflow_checks = TRUE
  /\ heap_lock = 0
  /\ memmap = <<>>
  /\ handed = <<>>
  /\ bitmap_addr = 0

FrameAllocDone(pages, r) ==
  /\ Install(r.k)
  /\ last' = [op |-> "alloc", pages |-> pages, ret |-> r.ret,
              retried |-> r.retried, before |-> bitmap, start |-> cursor,
              init |-> IF nops = 0 THEN bitmap ELSE last.init,
              hist |-> Append(IF nops = 0 THEN <<>> ELSE last.hist, <<"alloc", pages>>)]
  /\ live' = IF r.k.status = "ok"
             THEN Append(live, [ptr |-> r.ret, pages |-> pages])
             ELSE live

\* pmm::alloc(pages)
FrameAlloc(pages) ==
  /\ status = "ok"
  /\ nops < MaxFrameOps
  /\ FrameAllocDone(pages, pmm_alloc(K, pages))
  /\ nops' = nops + 1
  /\ UNCHANGED <<layout, smp>>

\* pmm::free(phys, pages) of a run that alloc returned
FrameFree(i) ==
  /\ status = "ok"
  /\ nops < MaxFrameOps
  /\ i \in 1 .. Len(live)
  /\ Install(pmm_free(K, live[i].ptr, live[i].pages))
  /\ last' = [op |-> "free", pages |-> live[i].pages, ptr |-> live[i].ptr,
              before |-> bitmap, undoes |-> last, init |-> last.init,
              hist |-> Append(last.hist, <<"free", live[i].ptr \div PAGE, live[i].pages>>)]
  /\ live' = Without(live, i)
  /\ nops' = nops + 1
  /\ UNCHANGED <<layout, smp>>

NextFrame ==
  \/ \E pages \in PageRequests : FrameAlloc(pages)
  \/ \E i \in 1 .. Len(live) : FrameFree(i)

SpecFrame == InitFrame /\ [][NextFrame]_vars

----------------------------------------------------------------------------
(* The heap dispatcher driven by one caller at a time (the GLOBAL_ALLOC lock
   serialises its callers), following the allocator contract: it frees and
   reallocs what it was given, with the size it asked for, and writes only
   into what it holds. *)

\* Bound: number of calls and writes in a run of the heap dispatcher
MaxOps == 4

\* The bitmap after init: frames 1-5 usable, frames 0, 6 and 7 not
HeapInitBitmaps == {<<193>>}

RequestSizes == {8, 40, 512, 4096}

\* What the caller writes into its memory: not zero, not an address
Pattern == 21 * WORD

Init ==
  /\ bitmap \in HeapInitBitmaps
  /\ cursor = 0
  /\ mem = NoMemory
  /\ slabs = [i \in 1 .. Len(Classes) |-> [size |-> Classes[i], first_free |-> 0]]
  /\ mem_used = 0
  /\ status = "ok"
  /\ layout \in {"size_first", "free_first"}
  /\ live = <<>>
  /\ last = [op |-> "none", wrote |-> {}, drawn |-> {}]
  /\ nops = 0
  /\ lock = 0
  /\ core = <<>>
  /\ overflow_checks \in BOOLEAN
  /\ heap_lock = 0
  /\ memmap = <<>>
  /\ handed = <<>>
  /\ bitmap_addr = 0

\* The words of the region at ptr holding n bytes
Contents(k, ptr, n) == [w \in 0 .. (n \div WORD - 1) |-> Load(k, ptr + w * WORD)]

HeapAllocDone(size, r) ==
  /\ Install(r.k)
  /\ last' = [op |-> "alloc", size |-> size, ret |-> r.ret, class |-> r.class,
              pages |-> r.pages, used |-> mem_used, before |-> bitmap,
              head |-> IF r.class = 0 THEN 0 ELSE slabs[r.class].first_free,
              wrote |-> last.wrote,
              drawn |-> last.drawn \cup DrawnBy(r.k, bitmap, r.class)]
  /\ live' = IF r.k.status = "ok"
             THEN Append(live, [ptr |-> r.ret, size |-> size, class |-> r.class])
             ELSE live

\* GlobalAlloc::alloc
HeapAlloc(size) ==
  /\ status = "ok"
  /\ nops < MaxOps
  /\ HeapAllocDone(size, heap_alloc(K, size))
  /\ nops' = nops + 1
  /\ UNCHANGED <<layout, smp>>

\* GlobalAlloc::dealloc
HeapFree(i) ==
  /\ status = "ok"
  /\ nops < MaxOps
  /\ i \in 1 .. Len(live)
  /\ Install(heap_free(K, live[i].ptr, live[i].size))
  /\ last' = [op |-> "free", size |-> live[i].size, ptr |-> live[i].ptr,
              class |-> live[i].class, used |-> mem_used, before |-> bitmap,
              heads |-> [c \in 1 .. Len(Classes) |-> slabs[c].first_free],
              mem |-> mem, wrote |-> last.wrote, drawn |-> last.drawn]
  /\ live' = Without(live, i)
  /\ nops' = nops + 1
  /\ UNCHANGED <<layout, smp>>

HeapReallocDone(i, new_size, r) ==
  /\ Install(r.k)
  /\ last' = [op |-> "realloc", size |-> live[i].size, new_size |-> new_size,
              ptr |-> live[i].ptr, ret |-> r.ret, class |-> live[i].class,
              fresh |-> r.fresh, used |-> mem_used, before |-> bitmap,
              old |-> Contents(K, live[i].ptr,
                               IF live[i].class = 0 THEN live[i].size
                               ELSE Classes[live[i].class]),
              heads |-> [c \in 1 .. Len(Classes) |-> slabs[c].first_free],
              mem |-> mem, wrote |-> last.wrote,
              drawn |-> last.drawn \cup DrawnBy(r.k, bitmap, slab_i(new_size))]
  /\ live' = IF r.k.status = "ok"
             THEN Append(Without(live, i),
                         [ptr |-> r.ret, size |-> new_size,
                          class |-> IF r.fresh THEN slab_i(new_size) ELSE live[i].class])
             ELSE live

\* GlobalAlloc::realloc
HeapRealloc(i, new_size) ==
  /\ status = "ok"
  /\ nops < MaxOps
  /\ i \in 1 .. Len(live)
  /\ HeapReallocDone(i, new_size, heap_realloc(K, live[i].ptr, live[i].size, new_size))
  /\ nops' = nops + 1
  /\ UNCHANGED <<layout, smp>>

\* The caller fills the first word of one of its allocations
UserWrite(i) ==
  /\ status = "ok"
  /\ nops < MaxOps
  /\ i \in 1 .. Len(live)
  /\ Load(K, live[i].ptr) # Pattern
  /\ Install(Store(K, live[i].ptr, Pattern))
  /\ last' = [op |-> "write", ptr |-> live[i].ptr, wrote |-> last.wrote \cup {live[i].ptr},
              drawn |-> last.drawn]
  /\ nops' = nops + 1
  /\ UNCHANGED <<layout, live, smp>>

Next ==
  \/ \E size \in RequestSizes : HeapAlloc(size)
  \/ \E i \in 1 .. Len(live) : HeapFree(i)
  \/ \E i \in 1 .. Len(live), new_size \in RequestSizes : HeapRealloc(i, new_size)
  \/ \E i \in 1 .. Len(live) : UserWrite(i)

Spec == Init /\ [][Next]_vars

----------------------------------------------------------------------------
(* The frame allocator called from several cores at once (mm/pmm.rs).  A
   step is one access to the shared cursor or one critical-section entry or
   exit; the bitmap is only touched by the holder of the BITMAP lock. *)

\* Bound: number of cores
NumCores == 2

\* Bound: number of calls one core makes
MaxCoreOps == 2

Cores == 1 .. NumCores

SmpInitBitmaps == {<<197>>}

SmpPageRequests == {1, 2}

\* The heap call a core is in, when it is in one
NoReq == [op |-> "none"]

Idle == [pc |-> "idle", pages |-> 0, p |-> 0, page |-> 0, attempt |-> 0, calls |-> 0,
         req |-> NoReq]

InitSMP ==
  /\ bitmap \in SmpInitBitmaps
  /\ cursor = 0
  /\ mem = NoMemory
  /\ slabs = <<>>
  /\ mem_used = 0
  /\ status = "ok"
  /\ layout = "none"
  /\ live = <<>>
  /\ last = NoCall
  /\ nops = 0
  /\ lock = 0
  /\ core = [c \in Cores |-> Idle]
  /\ overflow_checks \in BOOLEAN
  /\ heap_lock = 0
  /\ memmap = <<>>
  /\ handed = <<>>
  /\ bitmap_addr = 0

SmpFixed == <<slabs, mem_used, status, layout, last, nops, overflow_checks, heap_lock,
              boot>>

\* A core calls alloc(pages) -> alloc_nozero -> alloc_inner
CallAlloc(c, pages) ==
  /\ core[c].pc = "idle"
  /\ core[c].calls < MaxCoreOps
  /\ core' = [core EXCEPT ![c] = [pc |-> "lock", pages |-> pages, p |-> 0, page |-> 0,
                                  attempt |-> 1, calls |-> @.calls + 1, req |-> NoReq]]
  /\ UNCHANGED <<bitmap, cursor, mem, live, lock, SmpFixed>>

\* alloc_inner: BITMAP.lock(); let mut p = 0
AcquireForScan(c) ==
  /\ core[c].pc = "lock"
  /\ lock = 0
  /\ lock' = c
  /\ core' = [core EXCEPT ![c].pc = "while", ![c].p = 0]
  /\ UNCHANGED <<bitmap, cursor, mem, live, SmpFixed>>

\* Mutant: the guard of a scan that found nothing is kept over the retry
LoopTest_keeps_guard(c) ==
  /\ core[c].pc = "while"
  /\ IF cursor < BitmapLen(bitmap)
     THEN core' = [core EXCEPT ![c].pc = "fetch"]
     ELSE core' = [core EXCEPT ![c].pc = IF core[c].attempt = 1 THEN "reset" ELSE "oom"]
  /\ UNCHANGED <<bitmap, cursor, mem, live, lock, SmpFixed>>

\* alloc_inner: while LAST_USED_INDEX.load() < bitmap.len(); falling out of
\* the loop returns None and drops the guard
LoopTest(c) ==
  /\ core[c].pc = "while"
  /\ IF cursor < BitmapLen(bitmap)
     THEN /\ core' = [core EXCEPT ![c].pc = "fetch"]
          /\ lock' = lock
     ELSE /\ core' = [core EXCEPT ![c].pc = IF core[c].attempt = 1 THEN "reset" ELSE "oom"]
          /\ lock' = 0
  /\ UNCHANGED <<bitmap, cursor, mem, live, SmpFixed>>

\* Mutant: the scan marks each free bit as it counts it
FetchAndTest_marks(c) ==
  /\ core[c].pc = "fetch"
  /\ cursor' = cursor + 1
  /\ bitmap' = IF InBitmap(bitmap, cursor) THEN BitmapSet(bitmap, cursor) ELSE bitmap
  /\ core' = [core EXCEPT ![c] =
       IF ~InBitmap(bitmap, cursor) THEN [@ EXCEPT !.pc = "panicked"]
       ELSE IF BitmapTest(bitmap, cursor) = FALSE
       THEN [@ EXCEPT !.p = @ + 1,
                      !.pc = IF core[c].p + 1 = core[c].pages THEN "claim" ELSE "while"]
       ELSE [@ EXCEPT !.p = 0, !.pc = "while"]]
  /\ UNCHANGED <<mem, live, lock, SmpFixed>>

\* alloc_inner: bitmap.test(LAST_USED_INDEX.fetch_add(1)) and the count of p
FetchAndTest(c) ==
  /\ core[c].pc = "fetch"
  /\ cursor' = cursor + 1
  /\ core' = [core EXCEPT ![c] =
       IF ~InBitmap(bitmap, cursor) THEN [@ EXCEPT !.pc = "panicked"]
       ELSE IF BitmapTest(bitmap, cursor) = FALSE
       THEN [@ EXCEPT !.p = @ + 1,
                      !.pc = IF core[c].p + 1 = core[c].pages THEN "claim" ELSE "while"]
       ELSE [@ EXCEPT !.p = 0, !.pc = "while"]]
  /\ UNCHANGED <<bitmap, mem, live, lock, SmpFixed>>

\* alloc_inner: let page = LAST_USED_INDEX.load() - pages.  The subtraction
\* panics in a build with overflow checks and wraps in one without; a wrapped
\* page is kept as the negative number cursor - pages.
ClaimBase(c) ==
  /\ core[c].pc = "claim"
  /\ core' = [core EXCEPT ![c] =
       IF cursor < core[c].pages /\ overflow_checks
       THEN [@ EXCEPT !.pc = "panicked"]
       ELSE [@ EXCEPT !.page = cursor - core[c].pages, !.pc = "mark"]]
  /\ UNCHANGED <<bitmap, cursor, mem, live, lock, SmpFixed>>

\* alloc_inner: for i in page..LAST_USED_INDEX.load() { bitmap.set(i) }, then
\* return Some(page * 0x1000), which drops the guard.  A wrapped page is above
\* every cursor value: the range is empty.
MarkAndReturn(c) ==
  /\ core[c].pc = "mark"
  /\ bitmap' = IF core[c].page < 0 THEN bitmap ELSE SetRange(bitmap, core[c].page, cursor)
  /\ lock' = 0
  /\ live' = IF heap_lock = c THEN live
             ELSE Append(live, [ptr |-> core[c].page * PAGE, pages |-> core[c].pages,
                                owner |-> c])
  /\ core' = [core EXCEPT ![c].pc = "zero"]
  /\ UNCHANGED <<cursor, mem, SmpFixed>>

\* alloc: write_bytes(ret.as_hhdm(), 0, pages * 0x1000)
ZeroFill(c) ==
  /\ core[c].pc = "zero"
  /\ IF RangeMapped(K, as_hhdm(core[c].page * PAGE), core[c].pages * PAGE)
     THEN /\ mem' = write_bytes_zero_pages(K, core[c].page * PAGE, core[c].pages).mem
          /\ core' = [core EXCEPT ![c].pc = IF heap_lock = c THEN "heap_back" ELSE "idle"]
     ELSE /\ mem' = mem
          /\ core' = [core EXCEPT ![c].pc = "undefined"]
  /\ UNCHANGED <<bitmap, cursor, live, lock, SmpFixed>>

\* alloc_nozero: the closure's LAST_USED_INDEX.store(0), outside the lock
ResetCursor(c) ==
  /\ core[c].pc = "reset"
  /\ cursor' = 0
  /\ core' = [core EXCEPT ![c].pc = "lock", ![c].attempt = 2]
  /\ UNCHANGED <<bitmap, mem, live, lock, SmpFixed>>

\* A core calls free(phys, pages) on a run it was given
CallFree(c, i) ==
  /\ core[c].pc = "idle"
  /\ core[c].calls < MaxCoreOps
  /\ i \in 1 .. Len(live)
  /\ "pages" \in DOMAIN live[i]
  /\ live[i].owner = c
  /\ live[i].ptr >= 0
  /\ core' = [core EXCEPT ![c] = [pc |-> "free_lock", pages |-> live[i].pages, p |-> 0,
                                  page |-> live[i].ptr \div PAGE, attempt |-> 0,
                                  calls |-> @.calls + 1, req |-> NoReq]]
  /\ live' = Without(live, i)
  /\ UNCHANGED <<bitmap, cursor, mem, lock, SmpFixed>>

\* free: BITMAP.lock()
AcquireForFree(c) ==
  /\ core[c].pc = "free_lock"
  /\ lock = 0
  /\ lock' = c
  /\ core' = [core EXCEPT ![c].pc = "free_store"]
  /\ UNCHANGED <<bitmap, cursor, mem, live, SmpFixed>>

\* free: LAST_USED_INDEX.store(page)
FreeStore(c) ==
  /\ core[c].pc = "free_store"
  /\ cursor' = core[c].page
  /\ core' = [core EXCEPT ![c].pc = "free_unset"]
  /\ UNCHANGED <<bitmap, mem, live, lock, SmpFixed>>

\* free: the unset loop; returning drops the guard
FreeUnset(c) ==
  /\ core[c].pc = "free_unset"
  /\ bitmap' = pmm_free(K, core[c].page * PAGE, core[c].pages).bitmap
  /\ IF pmm_free(K, core[c].page * PAGE, core[c].pages).status = "ok"
     THEN lock' = 0 /\ core' = [core EXCEPT ![c].pc = IF heap_lock = c THEN "heap_back"
                                                      ELSE "idle"]
     ELSE lock' = lock /\ core' = [core EXCEPT ![c].pc = "panicked"]
  /\ UNCHANGED <<cursor, mem, live, SmpFixed>>

NextSMP ==
  \E c \in Cores :
    \/ \E pages \in SmpPageRequests : CallAlloc(c, pages)
    \/ AcquireForScan(c)
    \/ LoopTest(c)
    \/ FetchAndTest(c)
    \/ ClaimBase(c)
    \/ MarkAndReturn(c)
    \/ ZeroFill(c)
    \/ ResetCursor(c)
    \/ \E i \in 1 .. Len(live) : CallFree(c, i)
    \/ AcquireForFree(c)
    \/ FreeStore(c)
    \/ FreeUnset(c)

SpecSMP == InitSMP /\ [][NextSMP]_vars

FramesOf(r) == (r.ptr \div PAGE) .. (r.ptr \div PAGE + r.pages - 1)

\* C2: whatever the cursor does, the frames of every run alloc has returned
\* are bits of the bitmap, are set, and belong to no other run it returned.
C2_GrantsAreMarked ==
  /\ \A i \in LiveIds : \A f \in FramesOf(live[i]) :
       InBitmap(bitmap, f) /\ BitmapTest(bitmap, f)
  /\ \A i, j \in LiveIds : i < j => FramesOf(live[i]) \cap FramesOf(live[j]) = {}

----------------------------------------------------------------------------
(* The heap dispatcher and the frame allocator called from several cores at
   once (GlobalAlloc for LockedAlloc, mm/heap.rs, over mm/pmm.rs).  A heap
   call holds the GLOBAL_ALLOC lock from its first step to its return and
   goes through the frame allocator's steps above when it needs frames; the
   slab and counter state is only touched by the holder of that lock. *)

LockSizes == {8, 8192}

LockPageRequests == {1}

InitLocks ==
  /\ bitmap \in SmpInitBitmaps
  /\ cursor = 0
  /\ mem = NoMemory
  /\ slabs = [i \in 1 .. Len(Classes) |-> [size |-> Classes[i], first_free |-> 0]]
  /\ mem_used = 0
  /\ status = "ok"
  /\ layout \in {"size_first", "free_first"}
  /\ live = <<>>
  /\ last = NoCall
  /\ nops = 0
  /\ lock = 0
  /\ core = [c \in Cores |-> Idle]
  /\ overflow_checks = TRUE
  /\ heap_lock = 0
  /\ memmap = <<>>
  /\ handed = <<>>
  /\ bitmap_addr = 0

\* What a heap call leaves alone
HeapFixed == <<bitmap, cursor, lock, status, layout, last, nops, overflow_checks, boot>>

\* A core calls GlobalAlloc::alloc(layout), layout.size() = size
CallHeapAlloc(c, size) ==
  /\ core[c].pc = "idle"
  /\ core[c].calls < MaxCoreOps
  /\ core' = [core EXCEPT ![c] = [pc |-> "heap_lock", pages |-> 0, p |-> 0, page |-> 0,
                                  attempt |-> 0, calls |-> @.calls + 1,
                                  req |-> [op |-> "alloc", size |-> size]]]
  /\ UNCHANGED <<mem, slabs, mem_used, live, heap_lock, HeapFixed>>

\* A core calls GlobalAlloc::dealloc(ptr, layout) on an allocation it was given
CallHeapFree(c, i) ==
  /\ core[c].pc = "idle"
  /\ core[c].calls < MaxCoreOps
  /\ i \in 1 .. Len(live)
  /\ "size" \in DOMAIN live[i]
  /\ live[i].owner = c
  /\ core' = [core EXCEPT ![c] = [pc |-> "heap_lock", pages |-> 0, p |-> 0, page |-> 0,
                                  attempt |-> 0, calls |-> @.calls + 1,
                                  req |-> [op |-> "free", ptr |-> live[i].ptr,
                                           size |-> live[i].size]]]
  /\ live' = Without(live, i)
  /\ UNCHANGED <<mem, slabs, mem_used, heap_lock, HeapFixed>>

\* self.0.lock()
HeapAcquire(c) ==
  /\ core[c].pc = "heap_lock"
  /\ heap_lock = 0
  /\ heap_lock' = c
  /\ core' = [core EXCEPT ![c].pc = "heap_in"]
  /\ UNCHANGED <<mem, slabs, mem_used, live, HeapFixed>>

\* The heap call of core c returns with the state k and the pointer ret: the
\* guard is dropped.  A call that stopped keeps it.
HeapDone(c, k, ret) ==
  /\ mem' = k.mem
  /\ slabs' = k.slabs
  /\ mem_used' = k.mem_used
  /\ IF k.status = "ok"
     THEN /\ heap_lock' = 0
          /\ core' = [core EXCEPT ![c].pc = "idle", ![c].req = NoReq]
          /\ live' = IF core[c].req.op = "alloc"
                     THEN Append(live, [ptr |-> ret, size |-> core[c].req.size, owner |-> c])
                     ELSE live
     ELSE /\ heap_lock' = heap_lock
          /\ core' = [core EXCEPT ![c].pc = IF k.status = "panic" THEN "panicked"
                                            ELSE "undefined"]
          /\ live' = live

\* The heap call of core c goes on into pmm::alloc(pages) or pmm::free(page, pages)
HeapToFrames(c, k, pc, page, pages) ==
  /\ mem' = k.mem
  /\ slabs' = k.slabs
  /\ mem_used' = k.mem_used
  /\ core' = [core EXCEPT ![c].pc = pc, ![c].page = page, ![c].pages = pages,
                          ![c].p = 0, ![c].attempt = IF pc = "lock" THEN 1 ELSE 0]
  /\ UNCHANGED <<live, heap_lock>>

\* Alloc::alloc up to its first call of the frame allocator, k the state after
\* the counter was raised
HeapEnterAlloc(c, k, size) ==
  IF slab_i(size) = 0
  THEN HeapToFrames(c, k, "lock", 0, PagesFor(size))
  ELSE IF SlabField(k, DescAddr(slab_i(size)), "first_free") = 0
  THEN HeapToFrames(c, k, "lock", 0, 1)
  ELSE HeapDone(c, slab_take(k, DescAddr(slab_i(size))).k,
                slab_take(k, DescAddr(slab_i(size))).ret)

\* Alloc::free up to its call of the frame allocator, k the state after the
\* counter was lowered
HeapEnterFree(c, k, ptr, size) ==
  IF k.status # "ok" THEN HeapDone(c, k, 0)
  ELSE IF IsPageAligned(ptr)
  THEN HeapToFrames(c, k, "free_lock", as_phys_hhdm(ptr) \div PAGE, PagesFor(size))
  ELSE HeapDone(c, slab_free(k, SlabOfPtr(ptr), ptr), 0)

\* Alloc::alloc / Alloc::free under the lock, up to the frame allocator
HeapEnter(c) ==
  /\ core[c].pc = "heap_in"
  /\ IF core[c].req.op = "alloc"
     THEN HeapEnterAlloc(c, mem_used_add(K, core[c].req.size), core[c].req.size)
     ELSE HeapEnterFree(c, mem_used_sub(K, core[c].req.size), core[c].req.ptr,
                        core[c].req.size)
  /\ UNCHANGED HeapFixed

\* Slab::init after its pmm::alloc(1) and the rest of Slab::alloc
HeapCarve(c, k, self) == HeapDone(c, slab_take(k, self).k, slab_take(k, self).ret)

\* The heap call after the frame allocator returned to it
HeapBack(c) ==
  /\ core[c].pc = "heap_back"
  /\ IF core[c].req.op = "free"
     THEN HeapDone(c, slab_free(K, SlabOfPtr(core[c].req.ptr), core[c].req.ptr), 0)
     ELSE IF slab_i(core[c].req.size) = 0
     THEN HeapDone(c, K, as_hhdm(core[c].page * PAGE))
     ELSE HeapCarve(c, slab_carve([k |-> K, ret |-> core[c].page * PAGE],
                                  DescAddr(slab_i(core[c].req.size))),
                    DescAddr(slab_i(core[c].req.size)))
  /\ UNCHANGED HeapFixed

NextLocks ==
  \E c \in Cores :
    \/ \E size \in LockSizes : CallHeapAlloc(c, size)
    \/ \E i \in 1 .. Len(live) : CallHeapFree(c, i)
    \/ HeapAcquire(c)
    \/ HeapEnter(c)
    \/ HeapBack(c)
    \/ \E pages \in LockPageRequests : CallAlloc(c, pages)
    \/ AcquireForScan(c)
    \/ LoopTest(c)
    \/ FetchAndTest(c)
    \/ ClaimBase(c)
    \/ MarkAndReturn(c)
    \/ ZeroFill(c)
    \/ ResetCursor(c)
    \/ \E i \in 1 .. Len(live) : CallFree(c, i)
    \/ AcquireForFree(c)
    \/ FreeStore(c)
    \/ FreeUnset(c)

SpecLocks == InitLocks /\ [][NextLocks]_vars

\* The core that holds the lock core c is spinning on, 0 when c is not
\* spinning or the lock is free
WaitsFor(c) ==
  IF core[c].pc = "heap_lock" THEN heap_lock
  ELSE IF core[c].pc \in {"lock", "free_lock"} THEN lock
  ELSE 0

\* C15: lock order. No core asks for the GLOBAL_ALLOC lock while it holds the
\* BITMAP lock, a core that takes the BITMAP lock holds nothing else or the
\* GLOBAL_ALLOC lock, and no cores wait for each other in a cycle: not a core
\* for a lock it holds itself, nor two cores each for the lock the other holds.
C15_LockOrder ==
  /\ \A c \in Cores : core[c].pc \in {"heap_lock", "heap_in"} => lock # c
  /\ \A c \in Cores : WaitsFor(c) # c
  /\ \A c1, c2 \in Cores :
       ~(c1 # c2 /\ WaitsFor(c1) = c2 /\ WaitsFor(c2) = c1)

\* C15 witness: a core inside a heap call, holding the GLOBAL_ALLOC lock,
\* spins on the BITMAP lock that another core holds for a direct frame call
C15_Witness ==
  \E c1, c2 \in Cores :
    /\ c1 # c2
    /\ heap_lock = c1
    /\ core[c1].pc = "lock"
    /\ lock = c2
    /\ core[c2].req = NoReq

----------------------------------------------------------------------------
(* Class selection, one alloc of any size on the allocator as booted *)

\* Bound: the request sizes 0 .. MaxRequest are all tried
MaxRequest == 1100

RouteSizes == (0 .. MaxRequest) \cup {4095, 4096, 4097, 8192, 8193}

NextRoute == \E size \in RouteSizes : nops = 0 /\ HeapAlloc(size)

SpecRoute == Init /\ [][NextRoute]_vars

----------------------------------------------------------------------------
(* Boot: mm::init calls pmm::init once, on the memory map the bootloader
   handed over; after it the frame allocator is called, one caller at a time.
   Calls made before it find BITMAP empty. *)

Region(first, frames, usable) ==
  [base |-> first * PAGE, len |-> frames * PAGE, usable |-> usable]

\* Memory maps: usable entries are page-aligned and do not overlap.  The
\* third has its highest usable frame at 32770, just above 128 MiB; the
\* fourth has a reserved entry above every usable one.
MemoryMaps ==
  {<<Region(0, 1, FALSE), Region(1, 4, TRUE), Region(5, 2, FALSE), Region(7, 5, TRUE)>>,
   <<Region(0, 1, FALSE), Region(1, 9, TRUE), Region(10, 1, FALSE)>>,
   <<Region(0, 1, FALSE), Region(1, 3, TRUE), Region(32766, 5, TRUE)>>,
   <<Region(1, 8, TRUE), Region(9, 2, FALSE), Region(40000, 2, FALSE)>>}

BootPageRequests == {1, 2}

EarlySizes == {8, 4096}

InitBoot ==
  /\ bitmap = None
  /\ cursor = 0
  /\ mem = NoMemory
  /\ slabs = [i \in 1 .. Len(Classes) |-> [size |-> Classes[i], first_free |-> 0]]
  /\ mem_used = 0
  /\ status = "ok"
  /\ layout \in {"size_first", "free_first"}
  /\ live = <<>>
  /\ last = [op |-> "none", wrote |-> {}, drawn |-> {}]
  /\ nops = 0
  /\ lock = 0
  /\ core = <<>>
  /\ overflow_checks = TRUE
  /\ heap_lock = 0
  /\ memmap \in MemoryMaps
  /\ handed = memmap
  /\ bitmap_addr = 0

PmmInitDone(r) ==
  /\ Install(r.k)
  /\ memmap' = r.memmap
  /\ bitmap_addr' = r.bitmap_addr
  /\ last' = [op |-> "init", init |-> r.k.bitmap, hist |-> <<>>, wrote |-> {}]

\* mm::init -> pmm::init, the first thing _start does with memory
PmmInit ==
  /\ status = "ok"
  /\ bitmap = None
  /\ nops = 0
  /\ PmmInitDone(pmm_init(K, memmap))
  /\ UNCHANGED <<layout, live, nops, lock, core, overflow_checks, heap_lock, handed>>

\* pmm::free(phys, pages) called before init
EarlyFree(phys, pages) ==
  /\ status = "ok"
  /\ bitmap = None
  /\ nops < MaxFrameOps
  /\ Install(pmm_free(K, phys, pages))
  /\ last' = [op |-> "free", pages |-> pages, ptr |-> phys, before |-> bitmap,
              wrote |-> {}]
  /\ nops' = nops + 1
  /\ UNCHANGED <<layout, live, smp>>

NextBoot ==
  \/ PmmInit
  \/ \E pages \in BootPageRequests : FrameAlloc(pages)
  \/ \E i \in 1 .. Len(live) : FrameFree(i)
  \/ \E phys \in {0, PAGE}, pages \in BootPageRequests : EarlyFree(phys, pages)
  \/ \E size \in EarlySizes : bitmap = None /\ HeapAlloc(size)

SpecBoot == InitBoot /\ [][NextBoot]_vars

----------------------------------------------------------------------------
(* The heap dispatcher asked for regions above the largest class, so that
   every region is frame-granular *)

PageSizes == {4096, 5000, 6000, 8192}

NextPages ==
  \/ \E size \in PageSizes : HeapAlloc(size)
  \/ \E i \in 1 .. Len(live) : HeapFree(i)
  \/ \E i \in 1 .. Len(live), new_size \in PageSizes : HeapRealloc(i, new_size)
  \/ \E i \in 1 .. Len(live) : UserWrite(i)

SpecPages == Init /\ [][NextPages]_vars

----------------------------------------------------------------------------
(* The heap dispatcher asked for aligned memory: alloc never reads
   layout.align() *)

\* Layout::from_size_align takes any power of two; the claim stops at a page
Aligns == {2 ^ e : e \in 0 .. 12}

AlignSizes == {8, 24, 48, 4096}

HeapAllocLayoutDone(size, align, r) ==
  /\ Install(r.k)
  /\ last' = [op |-> "alloc", size |-> size, align |-> align, ret |-> r.ret,
              class |-> r.class, pages |-> r.pages, used |-> mem_used,
              before |-> bitmap, wrote |-> last.wrote,
              drawn |-> last.drawn \cup DrawnBy(r.k, bitmap, r.class)]
  /\ live' = IF r.k.status = "ok"
             THEN Append(live, [ptr |-> r.ret, size |-> size, class |-> r.class])
             ELSE live

\* GlobalAlloc::alloc(Layout::from_size_align(size, align))
HeapAllocLayout(size, align) ==
  /\ status = "ok"
  /\ nops < MaxOps
  /\ HeapAllocLayoutDone(size, align, heap_alloc(K, size))
  /\ nops' = nops + 1
  /\ UNCHANGED <<layout, smp>>

\* Bound: number of aligned requests in a run
MaxAlignOps == 2

NextAlign ==
  \E size \in AlignSizes, align \in Aligns :
    nops < MaxAlignOps /\ HeapAllocLayout(size, align)

SpecAlign == Init /\ [][NextAlign]_vars

----------------------------------------------------------------------------
(* The heap dispatcher asked to realloc the null pointer, among its other
   calls *)

\* The layout that comes with a null pointer describes no allocation
NullLayoutSizes == {0, 8, 4096}

HeapReallocNullDone(size, new_size, r) ==
  /\ Install(r.k)
  /\ last' = [op |-> "realloc_null", size |-> size, new_size |-> new_size,
              ret |-> r.ret, fresh |-> r.fresh, used |-> mem_used, before |-> bitmap,
              alloc |-> heap_alloc(K, new_size), wrote |-> last.wrote,
              drawn |-> last.drawn \cup DrawnBy(r.k, bitmap, slab_i(new_size))]
  /\ live' = IF r.k.status = "ok"
             THEN Append(live, [ptr |-> r.ret, size |-> new_size,
                                class |-> slab_i(new_size)])
             ELSE live

\* GlobalAlloc::realloc(null, layout, new_size), layout.size() = size
HeapReallocNull(size, new_size) ==
  /\ status = "ok"
  /\ nops < MaxOps
  /\ HeapReallocNullDone(size, new_size, heap_realloc(K, 0, size, new_size))
  /\ nops' = nops + 1
  /\ UNCHANGED <<layout, smp>>

\* Bound: number of calls in a run with reallocs of the null pointer
MaxNullOps == 3

NextNull ==
  /\ nops < MaxNullOps
  /\ \/ \E size \in RequestSizes : HeapAlloc(size)
     \/ \E i \in 1 .. Len(live) : HeapFree(i)
     \/ \E i \in 1 .. Len(live), new_size \in RequestSizes : HeapRealloc(i, new_size)
     \/ \E size \in NullLayoutSizes, new_size \in RequestSizes :
          HeapReallocNull(size, new_size)

SpecNull == Init /\ [][NextNull]_vars

----------------------------------------------------------------------------
(* Heap dispatcher properties (Spec, SpecRoute, SpecPages) *)

Disjoint(a, b) == a.ptr + a.size <= b.ptr \/ b.ptr + b.size <= a.ptr

\* C1: no two allocations that are live at the same time share a byte: their
\* ranges [ptr, ptr + size) are disjoint.
C1_NoOverlap ==
  \A i, j \in LiveIds : i < j => Disjoint(live[i], live[j])

\* The bytes alloc answers for: the class block, or the whole pages
RegionBytes(class, pages) == IF class = 0 THEN pages * PAGE ELSE Classes[class]

\* C3: every byte of the region alloc has just returned is zero, frame-granular
\* (all pages * 4096 bytes) or slab-granular (the whole class block).
C3_ZeroFill ==
  (last.op = "alloc" /\ status = "ok") =>
    \A w \in 0 .. (RegionBytes(last.class, last.pages) \div WORD - 1) :
      Load(K, last.ret + w * WORD) = 0

\* C3 witness: alloc has returned a region that held the caller's pattern
\* before and was given back since
C3_Witness ==
  /\ last.op = "alloc"
  /\ status = "ok"
  /\ last.ret \in last.wrote
  /\ \A i \in LiveIds : live[i].ptr = last.ret => i = Len(live)

\* C5: after free of a slab-granular block, the block is the head of the free
\* list of the descriptor that allocated it.
C5_SlabRoundTrip ==
  (last.op = "free" /\ last.class # 0 /\ status = "ok") =>
    slabs[last.class].first_free = last.ptr

\* C6: a pointer alloc returned through the frame path is page-aligned and a
\* pointer it returned through a slab class is not.
C6_Classification ==
  \A i \in LiveIds : (live[i].class = 0) <=> IsPageAligned(live[i].ptr)

ClassSizes == {Classes[i] : i \in 1 .. Len(Classes)}

BitsSet(inner) == Cardinality({i \in 0 .. (BitmapLen(inner) - 1) : BitmapTest(inner, i)})

\* C7: class selection. alloc serves a request of size s from the smallest
\* class c >= s when there is one, and from ceil(s / 4096) frames otherwise;
\* 20 -> class 24, 1 -> class 8, 1025 -> one page, 4096 -> one page.
C7_ClassSelection ==
  (last.op = "alloc" /\ status = "ok") =>
    /\ IF \E c \in ClassSizes : c >= last.size
       THEN /\ last.class # 0
            /\ Classes[last.class] >= last.size
            /\ \A c \in ClassSizes : c >= last.size => Classes[last.class] <= c
            /\ slabs[last.class].first_free # 0
       ELSE /\ last.class = 0
            /\ last.pages = CeilDiv(last.size, 4096)
            /\ BitsSet(bitmap) = BitsSet(last.before) + CeilDiv(last.size, 4096)
    /\ last.size = 20 => (last.class # 0 /\ Classes[last.class] = 24)
    /\ last.size = 1 => (last.class # 0 /\ Classes[last.class] = 8)
    /\ last.size = 1025 => (last.class = 0 /\ last.pages = 1)
    /\ last.size = 4096 => (last.class = 0 /\ last.pages = 1)

\* C7 witness: a request above the largest class has been served by frames
C7_Witness ==
  /\ last.op = "alloc"
  /\ status = "ok"
  /\ last.size = 1025
  /\ last.pages = 1

\* C9: realloc growth. A slab-granular 8-byte block that holds the pattern,
\* realloc-ed to 40 bytes, comes back as a new block of a class >= 40, apart
\* from every other live allocation, with the pattern in its first 8 bytes.
C9_ReallocGrowth ==
  (/\ last.op = "realloc"
   /\ status = "ok"
   /\ last.class = 1
   /\ last.size = 8
   /\ last.new_size = 40
   /\ last.old[0] = Pattern) =>
    /\ last.fresh
    /\ live[Len(live)].class # 0
    /\ Classes[live[Len(live)].class] >= 40
    /\ Load(K, last.ret) = Pattern
    /\ \A i \in LiveIds : i < Len(live) => Disjoint(live[i], live[Len(live)])

\* C10: realloc of a slab-granular pointer to more than the block size of its
\* class obtains a new region, copies the whole old block into it, frees the
\* old block to its class and returns the new pointer, never the old one.
C10_ReallocMoves ==
  (/\ last.op = "realloc"
   /\ status = "ok"
   /\ last.class # 0
   /\ last.new_size > Classes[last.class]) =>
    /\ last.fresh
    /\ last.ret # last.ptr
    /\ \A w \in DOMAIN last.old : Load(K, last.ret + w * WORD) = last.old[w]
    /\ slabs[last.class].first_free = last.ptr

----------------------------------------------------------------------------
(* Frame allocator properties (SpecFrame) *)

\* The call before the last one was the alloc whose run the last call freed
FreeRightAfterAlloc ==
  /\ last.op = "free"
  /\ last.undoes.op = "alloc"
  /\ last.undoes.ret = last.ptr
  /\ last.undoes.pages = last.pages

\* C4: frame round trip. An alloc(n) that returned base p, followed at once by
\* free(p, n), leaves every bit of the bitmap as it was before the alloc.
C4_FrameRoundTrip ==
  FreeRightAfterAlloc => bitmap = last.undoes.before

\* C4 witness: such a free has run, and the alloc it undoes did set bits
C4_Witness ==
  /\ FreeRightAfterAlloc
  /\ status = "ok"
  /\ last.before # last.undoes.before

ExhaustionBitmap == <<15, 0>>

\* C8: the exhaustion scenario. From the 16-frame bitmap with frames 0-3 set
\* and the cursor at 0, alloc(2) returns frame 4; after free(4, 2), alloc(16)
\* ends in the OOM panic, after one reset of the cursor and one more scan.
C8_Exhaustion ==
  (last.op # "none" /\ last.init = ExhaustionBitmap) =>
    /\ last.hist = << <<"alloc", 2>> >> =>
         (status = "ok" /\ last.ret = 4 * PAGE)
    /\ last.hist = << <<"alloc", 2>>, <<"free", 4, 2>>, <<"alloc", 16>> >> =>
         (status = "oom" /\ last.retried = 1)

\* C8 witness: the three calls of the scenario have been made
C8_Witness ==
  /\ last.op = "alloc"
  /\ last.init = ExhaustionBitmap
  /\ last.hist = << <<"alloc", 2>>, <<"free", 4, 2>>, <<"alloc", 16>> >>
  /\ status = "oom"

----------------------------------------------------------------------------
(* Reallocation of frame-granular regions (SpecPages) *)

\* The frames of a region of n bytes at the direct-map address ptr
FramesAt(ptr, n) ==
  (as_phys_hhdm(ptr) \div PAGE) .. (as_phys_hhdm(ptr) \div PAGE + CeilDiv(n, 4096) - 1)

\* C11: when realloc of a frame-granular pointer has obtained a new region, the
\* bits of all ceil(old_size / 4096) frames of the old region are clear, unless
\* the frame has been granted again (it is part of a live region).
C11_ReallocReleases ==
  (last.op = "realloc" /\ status = "ok" /\ last.class = 0 /\ last.fresh) =>
    \A f \in FramesAt(last.ptr, last.size) :
      \/ ~BitmapTest(bitmap, f)
      \/ \E i \in LiveIds : live[i].class = 0 /\ f \in FramesAt(live[i].ptr, live[i].size)

\* C12: realloc of a frame-granular pointer whose page count does not change,
\* ceil(new_size / 4096) = ceil(old_size / 4096), returns the same pointer and
\* allocates nothing: the bitmap and the slab descriptors are untouched.
C12_SamePageCount ==
  (/\ last.op = "realloc"
   /\ status = "ok"
   /\ last.class = 0
   /\ CeilDiv(last.new_size, 4096) = CeilDiv(last.size, 4096)) =>
    /\ last.ret = last.ptr
    /\ ~last.fresh
    /\ bitmap = last.before

----------------------------------------------------------------------------
(* Alignment (SpecAlign) *)

\* C13: the address alloc(size, align) has just returned is a multiple of
\* align, for every power of two align up to 4096.
C13_Aligned ==
  (last.op = "alloc" /\ status = "ok") => last.ret % last.align = 0

----------------------------------------------------------------------------
(* Accounting (Spec) *)

\* C14: every alloc(size) that returns leaves the counter used() reports higher
\* by exactly size, and every free(ptr, size) that returns leaves it lower by
\* exactly size, whichever class or number of pages served the request.
C14_Accounting ==
  /\ (last.op = "alloc" /\ status = "ok") => mem_used = last.used + last.size
  /\ (last.op = "free" /\ status = "ok") => mem_used = last.used - last.size

\* C14 witness: a 40-byte request, served by the 48-byte class, has been freed
\* while another allocation is still counted
C14_Witness ==
  /\ last.op = "free"
  /\ status = "ok"
  /\ last.size = 40
  /\ last.class = 5
  /\ mem_used > 0

----------------------------------------------------------------------------
(* Exhaustion of the frames (SpecFrame) *)

\* The bitmap has pages clear bits in a row somewhere
HasRun(inner, pages) ==
  \E from \in 0 .. (BitmapLen(inner) - pages) :
    \A i \in from .. (from + pages - 1) : ~BitmapTest(inner, i)

\* C16: with one caller, alloc(pages), pages >= 1, ends in the OOM panic exactly
\* when the bitmap it found has no run of pages clear bits, wherever the cursor
\* stood; before failing it has reset the cursor and scanned once more, from
\* index 0 to the end.
C16_OomIffNoRun ==
  last.op = "alloc" =>
    /\ (status = "oom") <=> ~HasRun(last.before, last.pages)
    /\ status = "oom" => (last.retried = 1 /\ cursor = BitmapLen(bitmap))
    /\ status = "ok" => bitmap = SetRange(last.before, last.ret \div PAGE,
                                          last.ret \div PAGE + last.pages)

\* C16 witness: alloc(3) failed from a cursor past the start, on a bitmap that
\* still has clear bits but no three in a row
C16_Witness ==
  /\ last.op = "alloc"
  /\ status = "oom"
  /\ last.pages = 3
  /\ last.start > 0
  /\ HasRun(last.before, 2)

----------------------------------------------------------------------------
(* The scan of alloc_inner, bit by bit and as a whole (SpecFrame) *)

\* In every state the frame allocator reaches, the loop unrolled bit by bit
\* and ScanAll return the same bitmap, cursor and run, for every request.
ScanAgrees ==
  status = "ok" =>
    \A pages \in PageRequests \cup {0} :
      Scan(K, 0, pages) = ScanAll(K, RunEnds(bitmap, cursor, pages), pages)

----------------------------------------------------------------------------
(* Boot properties (SpecBoot) *)

\* C17: a frame-allocator alloc or free, or a heap alloc that needs a backing
\* frame, made while BITMAP is still empty ends in a panic and has left the
\* bitmap, the cursor, the frames and every slab free list as they were.
C17_FailFast ==
  (last.op \in {"alloc", "free"} /\ last.before = None) =>
    /\ status = "panic"
    /\ bitmap = None
    /\ cursor = 0
    /\ mem = NoMemory
    /\ live = <<>>
    /\ \A c \in 1 .. Len(Classes) : slabs[c].first_free = 0

\* C17 witness: a heap alloc of 8 bytes, whose class had to draw its first
\* frame, was made before init
C17_Witness ==
  /\ last.op = "alloc"
  /\ last.before = None
  /\ status = "panic"
  /\ mem_used = 8

\* C18: when init returns, the bitmap has a bit for every frame below the
\* highest usable address: len() >= ceil(highest_addr / 4096); init clears no
\* index outside the bitmap, so it does return.
C18_BitmapCovers ==
  last.op = "init" =>
    /\ status = "ok"
    /\ BitmapLen(bitmap) >= CeilDiv(highest_addr(handed, Len(handed)), 4096)

\* The entries of the handed map that can hold the bitmap
Holders == init_fits(handed, bitmap_size(handed))

\* C19: init places the bitmap at the base of the first usable entry, in map
\* order, that is long enough for it, and every other usable entry keeps its
\* base and length and has all its frames free after init.
C19_FirstFitOnly ==
  (last.op = "init" /\ status = "ok") =>
    /\ Holders # {}
    /\ bitmap_addr = handed[CHOOSE i \in Holders : \A j \in Holders : i <= j].base
    /\ \A i \in 1 .. Len(handed) :
         (handed[i].usable /\ handed[i].base # bitmap_addr) =>
           /\ memmap[i] = handed[i]
           /\ \A f \in init_frames(handed[i]) : ~BitmapTest(bitmap, f)

\* The frames of the handed map's entries that are not usable
ReservedFrames ==
  UNION {(handed[i].base \div PAGE) ..
           (handed[i].base \div PAGE + CeilDiv(handed[i].len, PAGE) - 1) :
         i \in {i \in 1 .. Len(handed) : ~handed[i].usable}}

\* The frames that hold the bytes of the bitmap
BitmapFrames ==
  (bitmap_addr \div PAGE) .. (bitmap_addr \div PAGE + CeilDiv(Len(bitmap), PAGE) - 1)

\* C20: after init and after any alloc and any free of a run alloc returned,
\* every frame of a non-usable entry and every frame under the bitmap's own
\* bytes has its bit set (where the bitmap has a bit for it), and no run that
\* alloc returned holds such a frame.
C20_ReservedStaySet ==
  (bitmap # None /\ status = "ok") =>
    /\ \A f \in ReservedFrames \cup BitmapFrames :
         InBitmap(bitmap, f) => BitmapTest(bitmap, f)
    /\ \A i \in LiveIds :
         FramesOf(live[i]) \cap (ReservedFrames \cup BitmapFrames) = {}

\* C20 witness: after init an alloc wrapped around to a run freed before, on
\* a map with reserved frames between the usable ones
C20_Witness ==
  /\ bitmap # None
  /\ status = "ok"
  /\ last.op = "alloc"
  /\ last.retried = 1
  /\ \E f \in ReservedFrames : InBitmap(bitmap, f) /\ f > last.ret \div PAGE

----------------------------------------------------------------------------
(* Reallocation of the null pointer (SpecNull) *)

\* C21: every realloc of the null pointer to new_size leaves the allocator
\* in the state alloc(new_size) would have left it in (last.alloc), bitmap,
\* cursor, memory, descriptors and counter, and returns what that alloc would
\* have returned, from the same class or pages; where it returns, the counter
\* is up by new_size.
C21_NullIsAlloc ==
  last.op = "realloc_null" =>
    /\ K = last.alloc.k
    /\ last.ret = last.alloc.ret
    /\ status = "ok" =>
         /\ mem_used = last.used + last.new_size
         /\ live[Len(live)].class = last.alloc.class
         /\ IsPageAligned(last.ret) = IsPageAligned(last.alloc.ret)

\* C21 witness: realloc(null, layout of 8 bytes, 4096) has returned a page,
\* on an allocator that has served another call before
C21_Witness ==
  /\ last.op = "realloc_null"
  /\ status = "ok"
  /\ last.size = 8
  /\ last.new_size = 4096
  /\ IsPageAligned(last.ret)
  /\ nops > 1

----------------------------------------------------------------------------
(* Slab pages (Spec) *)

\* A slab page has at most 4096 / 8 blocks; the free list is walked in
\* MaxStretches stretches of Stretch links
MaxStretches == 16

Stretch == WordsPerPage \div MaxStretches

\* The block n links after block b on a free list, 0 when the list ends before
RECURSIVE Follow(_, _, _)
Follow(k, b, n) ==
  IF b = 0 \/ ~Mapped(k, b) THEN 0
  ELSE IF n = 0 THEN b
  ELSE Follow(k, Load(k, b), n - 1)

\* The first n blocks of the free list that starts at b
RECURSIVE FirstBlocks(_, _, _)
FirstBlocks(k, b, n) ==
  IF b = 0 \/ n = 0 \/ ~Mapped(k, b) THEN {}
  ELSE {b} \cup FirstBlocks(k, Load(k, b), n - 1)

\* The blocks on the free list that starts at head, stretch by stretch
RECURSIVE FreeList(_, _, _)
FreeList(k, head, stretches) ==
  IF head = 0 \/ stretches = 0 THEN {}
  ELSE FirstBlocks(k, head, Stretch)
         \cup FreeList(k, Follow(k, head, Stretch), stretches - 1)

\* The last call was a slab alloc that drew a frame
DrewFrame ==
  /\ last.op = "alloc"
  /\ status = "ok"
  /\ last.class # 0
  /\ bitmap # last.before

\* The frame the last alloc drew
DrawnFrame ==
  CHOOSE f \in 0 .. (BitmapLen(bitmap) - 1) :
    BitmapTest(bitmap, f) /\ ~BitmapTest(last.before, f)

\* The blocks Slab::init carved when the last alloc drew a frame: the one it
\* returned and those it left on the free list, which was empty before
CarvedBlocks == {last.ret} \cup FreeList(K, slabs[last.class].first_free, MaxStretches)

\* C22: when a class of block size s has drawn a frame at address a and
\* carved it, every block b of the page has a + 8 <= b and b + s <= a + 4096,
\* and no two blocks of the page share a byte.
C22_BlocksInFrame ==
  DrewFrame =>
    /\ \A b \in CarvedBlocks :
         /\ as_hhdm(DrawnFrame * PAGE) + 8 <= b
         /\ b + Classes[last.class] <= as_hhdm(DrawnFrame * PAGE) + PAGE
    /\ \A b1, b2 \in CarvedBlocks :
         b1 # b2 => (b1 + Classes[last.class] <= b2 \/ b2 + Classes[last.class] <= b1)

----------------------------------------------------------------------------
(* Recovery of the descriptor from a slab-granular pointer (Spec) *)

\* The last call was given a slab-granular pointer that alloc had returned
OnSlabPointer(op) ==
  /\ last.op = op
  /\ status = "ok"
  /\ last.class # 0
  /\ ~IsPageAligned(last.ptr)

\* C23: the page of every live slab-granular pointer starts with the address
\* of the descriptor of the pointer's class; free of such a pointer makes it
\* the head of that descriptor's free list, and realloc of such a pointer
\* moves the block exactly when new_size exceeds that descriptor's block size.
C23_BackReference ==
  /\ \A i \in LiveIds :
       (live[i].class # 0 /\ ~IsPageAligned(live[i].ptr)) =>
         Load(K, SlabOfPtr(live[i].ptr)) = DescAddr(live[i].class)
  /\ OnSlabPointer("free") =>
       /\ slabs[last.class].first_free = last.ptr
       /\ Load(K, SlabOfPtr(last.ptr)) = DescAddr(last.class)
  /\ OnSlabPointer("realloc") =>
       (last.fresh <=> last.new_size > Classes[last.class])

----------------------------------------------------------------------------
(* Release of frame-granular regions (SpecPages) *)

\* C24: free of a page-aligned pointer to a region of size bytes that came
\* from the frames clears the ceil(size / 4096) bits of the region and no
\* other bit, leaves the free-list head of every class as it was, and leaves
\* every word of the released region as it was.
C24_FrameFreeOnly ==
  (last.op = "free" /\ status = "ok" /\ last.class = 0 /\ IsPageAligned(last.ptr)) =>
    /\ bitmap = UnsetRange(last.before, as_phys_hhdm(last.ptr) \div PAGE,
                           as_phys_hhdm(last.ptr) \div PAGE + CeilDiv(last.size, 4096))
    /\ \A c \in 1 .. Len(Classes) : slabs[c].first_free = last.heads[c]
    /\ \A w \in 0 .. (CeilDiv(last.size, 4096) * WordsPerPage - 1) :
         Load(K, last.ptr + w * WORD) = Load([mem |-> last.mem], last.ptr + w * WORD)

----------------------------------------------------------------------------
(* Exhaustion with several cores (SpecSMP) *)

\* C25: whenever the retry scan of a core's alloc falls out of its loop, which
\* ends the call in expect("OOM"), the bitmap at that moment has no run of the
\* requested number of clear bits, whatever the other cores did to the cursor
\* since this core reset it.
C25_NoSpuriousOom ==
  [][\A c \in Cores :
       (core[c].pc = "while" /\ core'[c].pc = "oom") =>
         ~HasRun(bitmap', core[c].pages)]_vars

----------------------------------------------------------------------------
(* The effect of an alloc on the bitmap and the cursor (SpecFrame) *)

ScanStart == IF last.retried = 1 THEN 0 ELSE last.start

\* C27: next fit, with one caller at a time. An alloc(pages) that returns
\* frame index f leaves the cursor at f + pages; its run is the first run of
\* pages clear bits that begins at or after the cursor the call found (or at
\* or after 0, when the call had to reset the cursor), so an alloc that
\* follows another searches from just past that one's run, not from 0.
C27_NextFit ==
  (last.op = "alloc" /\ status = "ok") =>
    /\ cursor = last.ret \div PAGE + last.pages
    /\ last.ret \div PAGE >= ScanStart
    /\ \A g \in ScanStart .. (last.ret \div PAGE - 1) :
         \E i \in g .. (g + last.pages - 1) : BitmapTest(last.before, i)

\* C27 witness: an alloc that did not reset the cursor has returned a run
\* above a free frame that lies below the cursor it started from
C27_Witness ==
  /\ last.op = "alloc"
  /\ status = "ok"
  /\ last.retried = 0
  /\ last.start > 0
  /\ \E i \in 0 .. (last.start - 1) : ~BitmapTest(last.before, i)

\* The call before the last one, as the history of calls recorded it
Previous == last.hist[Len(last.hist) - 1]

\* The last call was an alloc made right after a free of at least as many pages
AllocRightAfterFree ==
  /\ last.op = "alloc"
  /\ Len(last.hist) >= 2
  /\ Previous[1] = "free"
  /\ last.pages <= Previous[3]

\* C28: with one caller at a time, free(phys, pages) leaves the cursor at the
\* index of the first frame it freed, and an alloc(n), n <= pages, made right
\* after it returns phys, without a reset of the cursor.
C28_FreeHint ==
  /\ (last.op = "free" /\ status = "ok") => cursor = last.ptr \div PAGE
  /\ AllocRightAfterFree =>
       /\ status = "ok"
       /\ last.ret = Previous[2] * PAGE
       /\ last.retried = 0

\* C28 witness: alloc(1) right after a free of two pages has returned the
\* freed base although a frame below it was free
C28_Witness ==
  /\ AllocRightAfterFree
  /\ status = "ok"
  /\ last.pages = 1
  /\ Previous[3] = 2
  /\ \E i \in 0 .. (last.ret \div PAGE - 1) : ~BitmapTest(last.before, i)

----------------------------------------------------------------------------
(* Reallocation within the class (Spec) *)

\* C29: realloc of a slab-granular pointer to a new_size that the block of
\* its class holds returns the same pointer and leaves the bitmap, the
\* free-list head of every class and all of memory as they were.
C29_ReallocInPlace ==
  (OnSlabPointer("realloc") /\ last.new_size <= Classes[last.class]) =>
    /\ last.ret = last.ptr
    /\ bitmap = last.before
    /\ \A c \in 1 .. Len(Classes) : slabs[c].first_free = last.heads[c]
    /\ mem = last.mem

----------------------------------------------------------------------------
(* Lazy backing of the classes (Spec) *)

\* C30: before the first call no class has a page: every free list is empty
\* and the bitmap is as init left it.  An alloc served by a class whose free
\* list was empty when it was called has set exactly one bit of the bitmap,
\* one drawn frame; one served by a class whose list was not empty has
\* returned the head of the list and left the bitmap as it was.  A free sets
\* no bit.
C30_LazyBacking ==
  /\ nops = 0 =>
       /\ bitmap \in HeapInitBitmaps
       /\ \A c \in 1 .. Len(Classes) : slabs[c].first_free = 0
  /\ (last.op = "alloc" /\ status = "ok" /\ last.class # 0) =>
       IF last.head = 0
       THEN /\ Cardinality(NewBits(bitmap, last.before)) = 1
            /\ NewBits(last.before, bitmap) = {}
       ELSE /\ bitmap = last.before
            /\ last.ret = last.head
  /\ last.op = "free" => NewBits(bitmap, last.before) = {}

\* C30 witness: a class that had drawn its page served a second alloc from
\* its free list
C30_Witness ==
  /\ last.op = "alloc"
  /\ status = "ok"
  /\ last.class # 0
  /\ last.head # 0
  /\ bitmap = last.before
  /\ \E i \in LiveIds : i < Len(live) /\ live[i].class = last.class

----------------------------------------------------------------------------
(* Slab pages stay claimed (Spec) *)

\* C31: after any sequence of alloc, free and realloc calls on pointers the
\* dispatcher returned, the bit of every frame Slab::init has ever drawn
\* (last.drawn) is set in the bitmap.
C31_DrawnStaySet ==
  status = "ok" => \A f \in last.drawn : BitmapTest(bitmap, f)

----------------------------------------------------------------------------
(* Serialisation of the shared state (SpecLocks) *)

\* Core c is between BITMAP.lock() and the drop of its guard
InBitmapSection(c) ==
  core[c].pc \in {"while", "fetch", "claim", "mark", "free_store", "free_unset"}

\* Core c is inside Alloc::alloc or Alloc::free, past self.0.lock()
InHeapCall(c) == core[c].req # NoReq /\ core[c].pc # "heap_lock"

\* The blocks on the free lists of the descriptors: their first words are
\* the links
LinkWords ==
  UNION {FreeList(K, slabs[i].first_free, MaxStretches) : i \in 1 .. Len(Classes)}

\* The core that takes the step
Stepper(c) == core'[c] # core[c]

\* C32: a core that is at a read or write of the bitmap holds the BITMAP lock
\* and a core inside a dispatcher call holds the GLOBAL_ALLOC lock, so at most
\* one core is inside a dispatcher call; every step that changes a bitmap bit
\* is taken by the holder of the BITMAP lock, and every step that changes a
\* descriptor, the counter or a link of a free list is taken by the holder of
\* the GLOBAL_ALLOC lock.
C32_Serialized ==
  /\ [](\A c \in Cores : (InBitmapSection(c) => lock = c) /\ (InHeapCall(c) => heap_lock = c))
  /\ [][/\ bitmap' # bitmap => \E c \in Cores : Stepper(c) /\ lock = c
        /\ (slabs' # slabs \/ mem_used' # mem_used) =>
             \E c \in Cores : Stepper(c) /\ heap_lock = c
        /\ (\E b \in LinkWords : Load([mem |-> mem'], b) # Load(K, b)) =>
             \E c \in Cores : Stepper(c) /\ heap_lock = c]_vars

----------------------------------------------------------------------------
(* The cores under fair scheduling.  Every core runs its own code without a
   scheduler (smp.rs), so a core that can take a step of a call eventually
   takes it; a spin lock that is free again and again is eventually won by
   a core spinning on it (fair hand-over).  Whether a core makes a further
   call is left open.  A core that panicked sits in hcf() (main.rs) with the
   guards it held: the panic handler halts that core only.

   A step of core c is a step that changes core[c], and every step of a
   call changes the position of the core that takes it, so the fairness of
   a core is stated on its entry of `core`. *)

\* The positions of a call that wait for nothing
RunPcs == {"heap_in", "heap_back", "while", "fetch", "claim", "mark", "zero", "reset",
           "free_store", "free_unset"}

Pcs == RunPcs \cup {"idle", "heap_lock", "lock", "free_lock", "oom", "panicked",
                    "undefined"}

\* Core c can take a step of its call that waits for nothing
CanRun(c) == core[c].pc \in RunPcs

\* Core c spins on a lock that is free
CanAcquire(c) ==
  \/ core[c].pc = "heap_lock" /\ heap_lock = 0
  \/ core[c].pc \in {"lock", "free_lock"} /\ lock = 0

\* Core c moves and no other core does
\* (the first disjunct is a case of the second, written as an assignment so
\* that ENABLED has a step to find)
Moves(c) ==
  \/ \E q \in Pcs \ {core[c].pc} : core' = [core EXCEPT ![c].pc = q]
  \/ core'[c] # core[c] /\ \A d \in Cores \ {c} : core'[d] = core[d]

CoreRun(c) == CanRun(c) /\ Moves(c)

CoreAcquire(c) == CanAcquire(c) /\ Moves(c)

FairCores == \A c \in Cores : WF_core(CoreRun(c)) /\ SF_core(CoreAcquire(c))

SpecLocksFair == InitLocks /\ [][NextLocks]_vars /\ FairCores

\* The core is inside an allocator operation it started
Started(c) == core[c].pc \notin {"idle", "oom", "panicked", "undefined"}

\* The core's operation returned, or the core is in the fatal halt
Ended(c) == ~Started(c)

\* C33: under fair scheduling and fair lock hand-over every allocator
\* operation a core started eventually returns or ends in the fatal halt,
\* and a scan of alloc_inner eventually leaves its loop.
C33_Terminates ==
  \A c \in Cores :
    /\ Started(c) ~> Ended(c)
    /\ (core[c].pc \in {"while", "fetch"}) ~> (core[c].pc \notin {"while", "fetch"})

----------------------------------------------------------------------------
(* The Bitmap's methods (utils/bitmap.rs) and pmm::free called with any
   index and any run, in range or not.  `self.inner[idx / 8]` indexes a
   slice: the index is checked before the byte is read or written, in every
   build, and a failed check panics. *)

\* Bitmap::test
bitmap_test(k, idx) ==
  IF ~InBitmap(k.bitmap, idx) THEN [k |-> Stop(k, "panic"), ret |-> FALSE]
  ELSE [k |-> k, ret |-> BitmapTest(k.bitmap, idx)]

\* Mutant: an index past the end is taken as the last bit
bitmap_set_clamped(k, idx) ==
  [k EXCEPT !.bitmap = BitmapSet(@, IF InBitmap(@, idx) THEN idx ELSE BitmapLen(@) - 1)]

\* Bitmap::set
bitmap_set(k, idx) ==
  IF ~InBitmap(k.bitmap, idx) THEN Stop(k, "panic")
  ELSE [k EXCEPT !.bitmap = BitmapSet(@, idx)]

\* Bitmap::unset
bitmap_unset(k, idx) ==
  IF ~InBitmap(k.bitmap, idx) THEN Stop(k, "panic")
  ELSE [k EXCEPT !.bitmap = BitmapUnset(@, idx)]

\* Bound: number of calls in a run of the bitmap
MaxBitmapOps == 2

\* Bound: how far past the last bit an index or a run may reach
MaxPast == 3

\* The indexes tried on a bitmap of 16 bits
BitIndexes == 0 .. (16 + MaxPast)

BitmapCallDone(op, idx, pages, k) ==
  /\ Install(k)
  /\ last' = [op |-> op, idx |-> idx, pages |-> pages, before |-> bitmap, mem |-> mem]
  /\ nops' = nops + 1
  /\ UNCHANGED <<layout, live, smp>>

BitmapCallTest(idx) ==
  /\ status = "ok"
  /\ nops < MaxBitmapOps
  /\ BitmapCallDone("test", idx, 0, bitmap_test(K, idx).k)

BitmapCallSet(idx) ==
  /\ status = "ok"
  /\ nops < MaxBitmapOps
  /\ BitmapCallDone("set", idx, 0, bitmap_set(K, idx))

BitmapCallUnset(idx) ==
  /\ status = "ok"
  /\ nops < MaxBitmapOps
  /\ BitmapCallDone("unset", idx, 0, bitmap_unset(K, idx))

\* pmm::free(phys, pages) with any run
FrameFreeAny(page, pages) ==
  /\ status = "ok"
  /\ nops < MaxBitmapOps
  /\ BitmapCallDone("free", page, pages, pmm_free(K, page * PAGE, pages))

NextBitmap ==
  \E idx \in BitIndexes :
    \/ BitmapCallTest(idx)
    \/ BitmapCallSet(idx)
    \/ BitmapCallUnset(idx)
    \/ \E pages \in 1 .. MaxPast : FrameFreeAny(idx, pages)

SpecBitmap == InitFrame /\ [][NextBitmap]_vars

\* The last call was a bitmap method
MethodCall == last.op \in {"test", "set", "unset"}

\* C34: test, set and unset with an index at or past len() panic and leave
\* every byte of the bitmap and of memory as it was; pmm::free of a run that
\* reaches past the last bit panics, and no bit outside the run changed (the
\* bitmap is as long as before, so no bit outside the bitmap was cleared).
C34_FailFast ==
  /\ (MethodCall /\ last.idx >= BitmapLen(last.before)) =>
       (status = "panic" /\ bitmap = last.before /\ mem = last.mem)
  /\ (last.op = "free" /\ last.idx + last.pages > BitmapLen(last.before)) =>
       /\ status = "panic"
       /\ mem = last.mem
       /\ Len(bitmap) = Len(last.before)
       /\ \A i \in 0 .. (BitmapLen(bitmap) - 1) :
            i \notin last.idx .. (last.idx + last.pages - 1) =>
              BitmapTest(bitmap, i) = BitmapTest(last.before, i)

\* C34 witness: a set with an index past the end has panicked
C34_Witness ==
  /\ last.op = "set"
  /\ last.idx >= BitmapLen(last.before)
  /\ status = "panic"

----------------------------------------------------------------------------
\* The sizes the caller asked for, over its live allocations as they stand
RECURSIVE RequestedBytes(_)
RequestedBytes(allocs) ==
  IF allocs = <<>> THEN 0 ELSE Head(allocs).size + RequestedBytes(Tail(allocs))

\* C35: after any sequence of alloc, realloc and free that follows the
\* contract, mem_used is the sum of the sizes of the live allocations (the
\* new_size of one that was realloc-ed), and it never went below zero.
C35_UsedIsLiveSum ==
  /\ status = "ok" => mem_used = RequestedBytes(live)
  /\ mem_used >= 0
  /\ ~(status = "panic" /\ last.op = "free" /\ last.used < last.size)

----------------------------------------------------------------------------
(* The free lists as data structures (Spec) *)

\* The free list that starts at head ends in null within the given stretches
RECURSIVE EndsInNull(_, _, _)
EndsInNull(k, head, stretches) ==
  IF head = 0 THEN TRUE
  ELSE IF stretches = 0 \/ ~Mapped(k, head) THEN FALSE
  ELSE /\ \A b \in FirstBlocks(k, head, Stretch) : Load(k, b) = 0 \/ Mapped(k, Load(k, b))
       /\ EndsInNull(k, Follow(k, head, Stretch), stretches - 1)

\* The places where Slab::init puts the blocks of class i in the page of frame f
BlocksOfPage(i, f) ==
  {as_hhdm(f * PAGE) + align_up(8, Classes[i]) * WORD + j * Classes[i] :
     j \in 0 .. ((PAGE - align_up(8, Classes[i])) \div Classes[i] - 1)}

\* b is a block of class i in some page
IsBlockOf(i, b) == \E f \in 0 .. (BitmapLen(bitmap) - 1) : b \in BlocksOfPage(i, f)

\* The bytes a live allocation holds and those of a block of class i at b meet
MeetsLive(i, b) ==
  \E n \in 1 .. Len(live) :
    /\ b < live[n].ptr + (IF live[n].class = 0 THEN PagesFor(live[n].size) * PAGE
                          ELSE Classes[live[n].class])
    /\ live[n].ptr < b + Classes[i]

\* C36: in every state each class's free list, followed from the
\* descriptor's head through the first word of each block, ends in null
\* after finitely many blocks (so it has no cycle and no block twice), and
\* holds only blocks of that class that are not live.
C36_FreeListsWellFormed ==
  status = "ok" =>
    \A i \in 1 .. Len(slabs) :
      /\ EndsInNull(K, slabs[i].first_free, MaxStretches)
      /\ \A b \in FreeList(K, slabs[i].first_free, MaxStretches) :
           IsBlockOf(i, b) /\ ~MeetsLive(i, b)

----------------------------------------------------------------------------
\* Core c counted its run and is about to read the cursor for the base
AboutToClaim(c) == core[c].pc = "claim"

\* C37: whenever alloc_inner claims a run, the cursor it reads is at least
\* `pages`, and cursor - pages is the first of `pages` consecutive bits of
\* the bitmap that are free, as the scan counted them; on every interleaving
\* with the other cores' cursor writes.
C37_BaseFromCursor ==
  \A c \in Cores :
    AboutToClaim(c) =>
      /\ cursor >= core[c].pages
      /\ \A i \in (cursor - core[c].pages) .. (cursor - 1) :
           InBitmap(bitmap, i) /\ ~BitmapTest(bitmap, i)

----------------------------------------------------------------------------
\* Core c is inside a search attempt that has not found its run: it holds
\* the BITMAP lock and is in alloc_inner's loop
Searching(c) == lock = c /\ core[c].pc \in {"while", "fetch"}

\* C38: a search attempt that finds no run leaves every bit of the bitmap
\* as it was, the final failing retry included: from taking the lock to
\* falling out of the loop no step changes the bitmap, and the searching
\* core's own steps change nothing but the cursor (and its position).
C38_FailedSearchKeepsBits ==
  [][\A c \in Cores :
       Searching(c) =>
         /\ bitmap' = bitmap
         /\ Stepper(c) => UNCHANGED <<mem, live, SmpFixed>>]_vars

\* C38 witness: a core's retry fell out of the loop without a run, and the
\* cursor is at the end of the bitmap
C38_Witness ==
  \E c \in Cores : core[c].pc = "oom" /\ cursor = BitmapLen(bitmap) /\ lock = 0

====
